---- MODULE Spec2Model ----
(***************************************************************************)
(* Model of demo-apps/ghost-cdk/ghost_example.py: the module-level script  *)
(* that resolves account and region, constructs GhostStack (a graph of     *)
(* constructs, security rules and dependency edges that depends on the     *)
(* context flags deploy_external_secrets and deploy_sgp) and calls         *)
(* app.synth().  One action per statement group of the script; pc is the   *)
(* position of the single thread of control.                               *)
(***************************************************************************)
EXTENDS Integers, Sequences, FiniteSets, TLC

VARIABLES
    ctx,        \* the CDK context: key -> Python value (try_get_context)
    env,        \* os.environ: variable name -> Python value (None when unset)
    pc,         \* position of the script
    error,      \* the exception that ended the run, "none" while running
    account,    \* module-level variable account
    region,     \* module-level variable region
    subnets,    \* len(vpc.private_subnets) of the looked-up VPC
    constructs, \* constructs added to the stack, in creation order
    rules,      \* security rules added with connections.allow_from
    policies,   \* policy statements added with add_to_policy
    deps,       \* explicit edges added with node.add_dependency: <<from, to>>
    refs,       \* implicit edges: a construct's properties use another's attribute
    locals,     \* names bound in GhostStack.__init__
    realized    \* nodes the apply engine has realized

vars == <<ctx, env, pc, error, account, region, subnets, constructs, rules,
          policies, deps, refs, locals, realized>>

(***************************************************************************)
(* Python values.  A str is a sequence of one-character strings, so that   *)
(* str.strip() is computed and not assumed.                                *)
(***************************************************************************)
None == [t |-> "none", v |-> <<>>]

Str(s) == [t |-> "str", v |-> s]

PyBool(b) == [t |-> "bool", v |-> b]

\* the characters of the literal "True" compared against at lines 63, 113, 185
TrueLiteral == <<"T", "r", "u", "e">>

\* Python ==: values of different types are unequal (True == "True" is False)
PyEq(a, b) == a.t = b.t /\ a.v = b.v

IsSpace(c) == c \in {" ", "\t", "\n"}

RECURSIVE LStrip(_)
LStrip(s) == IF s # <<>> /\ IsSpace(Head(s)) THEN LStrip(Tail(s)) ELSE s

RECURSIVE RStrip(_)
RStrip(s) ==
    IF s # <<>> /\ IsSpace(s[Len(s)]) THEN RStrip(SubSeq(s, 1, Len(s) - 1)) ELSE s

\* str.strip()
Strip(s) == RStrip(LStrip(s))

\* Node.try_get_context(key): the value, or None when the key is not set
TryGetContext(key) == ctx[key]

(***************************************************************************)
(* Inputs                                                                  *)
(***************************************************************************)
MaxSubnets == 3

FlagValues ==
    { None, Str(TrueLiteral), Str(<<"t", "r", "u", "e">>),
      Str(<<"F", "a", "l", "s", "e">>), PyBool(TRUE) }

AccountValues == { None, Str(<<>>), Str(<<" ">>), Str(<<"1", "2">>), Str(<<" ", "1">>) }

RegionValues == { None, Str(<<>>), Str(<<"\t">>), Str(<<"e", "u">>) }

EnvNames ==
    {"CDK_DEPLOY_ACCOUNT", "CDK_DEFAULT_ACCOUNT", "CDK_DEPLOY_REGION", "CDK_DEFAULT_REGION"}

\* the value a set environment variable holds: one per variable
EnvValue(n) == Str(<<n>>)

Environments == { e \in [EnvNames -> {None} \cup {EnvValue(n) : n \in EnvNames}] :
                    \A n \in EnvNames : e[n] \in {None, EnvValue(n)} }

Contexts ==
    [account : AccountValues, region : RegionValues,
     deploy_external_secrets : FlagValues, deploy_sgp : FlagValues]

FileStates == {"ok", "missing", "malformed"}

Unset == [t |-> "unset", v |-> <<>>]

InitRest ==
    /\ pc = "account"
    /\ error = "none"
    /\ account = Unset
    /\ region = Unset
    /\ subnets = 0
    /\ constructs = <<>>
    /\ rules = {}
    /\ policies = {}
    /\ deps = {}
    /\ refs = {}
    /\ locals = {}
    /\ realized = {}

Init ==
    /\ ctx \in Contexts
    /\ env \in Environments
    /\ InitRest

(***************************************************************************)
(* Raising: nothing in the script catches, so the run ends where it raises *)
(***************************************************************************)
\* Raise with the exception swallowed by a handler around the constructor
RaiseCaught(e) ==
    /\ pc' = "synth"
    /\ error' = e
    /\ UNCHANGED <<constructs, rules, policies, deps, refs, locals, realized>>

Raise(e) ==
    /\ pc' = "aborted"
    /\ error' = e
    /\ UNCHANGED <<constructs, rules, policies, deps, refs, locals, realized>>

Goto(l) == pc' = l /\ error' = error

(***************************************************************************)
(* Lines 218-229: account and region                                       *)
(***************************************************************************)
\* os.environ.get(deployKey, os.environ[defaultKey]): the default argument is
\* evaluated first, and os.environ[k] raises KeyError when k is unset
EnvFallback(deployKey, defaultKey) ==
    IF env[defaultKey] = None THEN [ok |-> FALSE, val |-> None]
    ELSE IF env[deployKey] # None THEN [ok |-> TRUE, val |-> env[deployKey]]
    ELSE [ok |-> TRUE, val |-> env[defaultKey]]

\* lines 219-223 (and 225-229): x.strip() raises AttributeError unless x is a str
Resolve(key, deployKey, defaultKey) ==
    LET c == TryGetContext(key) IN
    IF c.t # "str" THEN [err |-> "AttributeError", val |-> None]
    ELSE IF Strip(c.v) # <<>> THEN [err |-> "none", val |-> c]
    ELSE LET f == EnvFallback(deployKey, defaultKey) IN
         IF f.ok THEN [err |-> "none", val |-> f.val]
         ELSE [err |-> "KeyError", val |-> None]

ResolveAccount ==
    /\ pc = "account"
    /\ LET r == Resolve("account", "CDK_DEPLOY_ACCOUNT", "CDK_DEFAULT_ACCOUNT") IN
       IF r.err # "none"
       THEN Raise(r.err) /\ UNCHANGED <<account>>
       ELSE /\ account' = r.val
            /\ Goto("region")
            /\ UNCHANGED <<constructs, rules, policies, deps, refs, locals, realized>>
    /\ UNCHANGED <<ctx, env, region, subnets>>

ResolveRegion ==
    /\ pc = "region"
    /\ LET r == Resolve("region", "CDK_DEPLOY_REGION", "CDK_DEFAULT_REGION") IN
       IF r.err # "none"
       THEN Raise(r.err) /\ UNCHANGED <<region>>
       ELSE /\ region' = r.val
            /\ Goto("vpc")
            /\ UNCHANGED <<constructs, rules, policies, deps, refs, locals, realized>>
    /\ UNCHANGED <<ctx, env, account, subnets>>

(***************************************************************************)
(* GhostStack.__init__, lines 16-215                                       *)
(***************************************************************************)
NoBody == [kind |-> "", data |-> <<>>]

Construct(id, kind, body) == [id |-> id, kind |-> kind, body |-> body]

Ids == { constructs[i].id : i \in 1..Len(constructs) }

OfKind(k) == { i \in 1..Len(constructs) : constructs[i].kind = k }

Occurrences(id) == Cardinality({ i \in 1..Len(constructs) : constructs[i].id = id })

\* the steps that leave the environment and the module-level variables alone
Frame == UNCHANGED <<ctx, env, account, region, realized>>

\* line 20: ec2.Vpc.from_lookup; the lookup fails, or finds a VPC with some
\* number of private subnets
LookupVpc ==
    /\ pc = "vpc"
    /\ \E found \in BOOLEAN, n \in 0..MaxSubnets :
         IF ~found
         THEN Raise("LookupError") /\ UNCHANGED subnets
         ELSE /\ subnets' = n
              /\ constructs' = Append(constructs, Construct("VPC", "VpcRef", NoBody))
              /\ locals' = locals \cup {"vpc"}
              /\ Goto("dbsg")
              /\ UNCHANGED <<rules, policies, deps, refs, realized>>
    /\ UNCHANGED <<ctx, env, account, region>>

\* lines 23-27: security_group = ec2.SecurityGroup(self, "Ghost-DB-SG", vpc=vpc)
CreateDbSecurityGroup ==
    /\ pc = "dbsg"
    /\ constructs' = Append(constructs, Construct("Ghost-DB-SG", "SecurityGroup", NoBody))
    /\ refs' = refs \cup {<<"Ghost-DB-SG", "VPC">>}
    /\ locals' = locals \cup {"security_group"}
    /\ Goto("rds")
    /\ UNCHANGED <<subnets, rules, policies, deps>>
    /\ Frame

\* lines 30-45: ghost_rds = rds.DatabaseInstance(self, "RDS", ...,
\* security_groups=[security_group]); the instance owns its generated secret
CreateDatabase ==
    /\ pc = "rds"
    /\ constructs' = Append(constructs, Construct("RDS", "DatabaseInstance", NoBody))
    /\ refs' = refs \cup {<<"RDS", "VPC">>, <<"RDS", "Ghost-DB-SG">>}
    /\ locals' = locals \cup {"ghost_rds"}
    /\ Goto("cluster")
    /\ UNCHANGED <<subnets, rules, policies, deps>>
    /\ Frame

\* lines 48-61: eks.Cluster.from_cluster_attributes; the arguments are evaluated
\* first: the OIDC provider import, then vpc.private_subnets[0] and [1]
ImportCluster ==
    /\ pc = "cluster"
    /\ IF subnets < 2
       THEN /\ constructs' = Append(constructs,
                                    Construct("EKSClusterOIDCProvider", "OidcRef", NoBody))
            /\ pc' = "aborted"
            /\ error' = "IndexError"
            /\ UNCHANGED <<rules, policies, deps, refs, locals>>
       ELSE /\ constructs' = constructs \o
                  << Construct("EKSClusterOIDCProvider", "OidcRef", NoBody),
                     Construct("cluster", "ClusterRef", NoBody) >>
            /\ locals' = locals \cup {"eks_cluster"}
            /\ Goto("es_flag")
            /\ UNCHANGED <<rules, policies, deps, refs>>
    /\ UNCHANGED subnets
    /\ Frame

\* the flag tested for truthiness instead of equality with "True"
ExternalSecretsTruthy == TryGetContext("deploy_external_secrets") # None

\* the condition of lines 63 and 185
ExternalSecretsEnabled == PyEq(TryGetContext("deploy_external_secrets"), Str(TrueLiteral))

\* the second read tested for truthiness
ExternalSecretsTruthyAgain == TryGetContext("deploy_external_secrets") # None

\* the condition of line 185, read again after the manifest is added
ExternalSecretsEnabledAgain ==
    PyEq(TryGetContext("deploy_external_secrets"), Str(TrueLiteral))

\* deploy_sgp tested for truthiness
SgpTruthy == TryGetContext("deploy_sgp") # None

\* the condition of line 113
SgpEnabled == PyEq(TryGetContext("deploy_sgp"), Str(TrueLiteral))

\* line 63
BranchExternalSecrets ==
    /\ pc = "es_flag"
    /\ Goto(IF ExternalSecretsEnabled THEN "sa" ELSE "sgp_flag")
    /\ UNCHANGED <<subnets, constructs, rules, policies, deps, refs, locals>>
    /\ Frame

\* lines 66-70: eks_cluster.add_service_account("kubernetes-external-secrets", ...)
AddServiceAccount ==
    /\ pc = "sa"
    /\ constructs' = Append(constructs,
           Construct("kubernetes-external-secrets", "ServiceAccount", NoBody))
    /\ locals' = locals \cup {"externalsecrets_service_account"}
    /\ Goto("policy")
    /\ UNCHANGED <<subnets, rules, policies, deps, refs>>
    /\ Frame

\* lines 73-84: externalsecrets_policy_statement_json_1
SecretsPolicyStatement ==
    [ sa |-> "kubernetes-external-secrets",
      effect |-> "Allow",
      actions |-> { "secretsmanager:GetResourcePolicy", "secretsmanager:GetSecretValue",
                    "secretsmanager:DescribeSecret", "secretsmanager:ListSecretVersionIds" },
      resources |-> {"*"} ]

\* lines 87-88: externalsecrets_service_account.add_to_policy(...)
AddPolicy ==
    /\ pc = "policy"
    /\ policies' = policies \cup {SecretsPolicyStatement}
    /\ Goto("chart")
    /\ UNCHANGED <<subnets, constructs, rules, deps, refs, locals>>
    /\ Frame

\* lines 91-110: external_secrets_chart = eks_cluster.add_helm_chart("external-secrets", ...)
\* the chart names the service account by a string literal, not by reference
AddHelmChart ==
    /\ pc = "chart"
    /\ constructs' = Append(constructs, Construct("external-secrets", "HelmChart",
           [kind |-> "kubernetes-external-secrets", data |-> <<>>]))
    /\ locals' = locals \cup {"external_secrets_chart"}
    /\ Goto("sgp_flag")
    /\ UNCHANGED <<subnets, rules, policies, deps, refs>>
    /\ Frame

\* line 113
BranchSgp ==
    /\ pc = "sgp_flag"
    /\ Goto(IF SgpEnabled THEN "podsg" ELSE "clusterrule")
    /\ UNCHANGED <<subnets, constructs, rules, policies, deps, refs, locals>>
    /\ Frame

\* lines 115-119: security_group_pods = ec2.SecurityGroup(self, "Ghost-Pod-SG", vpc=vpc)
CreatePodSecurityGroup ==
    /\ pc = "podsg"
    /\ constructs' = Append(constructs, Construct("Ghost-Pod-SG", "SecurityGroup", NoBody))
    /\ refs' = refs \cup {<<"Ghost-Pod-SG", "VPC">>}
    /\ locals' = locals \cup {"security_group_pods"}
    /\ Goto("podrule")
    /\ UNCHANGED <<subnets, rules, policies, deps>>
    /\ Frame

\* ec2.Port.tcp(3306), lines 122 and 149
DbPort == 3306

AllowFrom(other) == [to |-> "Ghost-DB-SG", from |-> other, proto |-> "tcp", port |-> DbPort]

\* lines 121-122: security_group.connections.allow_from(other=security_group_pods, ...)
AllowFromPods ==
    /\ pc = "podrule"
    /\ rules' = rules \cup {AllowFrom("Ghost-Pod-SG")}
    /\ Goto("sgp")
    /\ UNCHANGED <<subnets, constructs, policies, deps, refs, locals>>
    /\ Frame

\* AddSgpManifest when the else of line 146 is lost: the cluster rule follows
AddSgpManifestFallThrough ==
    /\ pc = "sgp"
    /\ constructs' = Append(constructs, Construct("GhostSGP", "KubernetesManifest",
           [kind |-> "SecurityGroupPolicy", data |-> <<>>]))
    /\ refs' = refs \cup {<<"GhostSGP", "Ghost-Pod-SG">>}
    /\ locals' = locals \cup {"sgp"}
    /\ Goto("clusterrule")
    /\ UNCHANGED <<subnets, rules, policies, deps>>
    /\ Frame

\* lines 125-144: sgp = eks_cluster.add_manifest("GhostSGP", {...}); groupIds uses
\* security_group_pods.security_group_id
AddSgpManifest ==
    /\ pc = "sgp"
    /\ constructs' = Append(constructs, Construct("GhostSGP", "KubernetesManifest",
           [kind |-> "SecurityGroupPolicy", data |-> <<>>]))
    /\ refs' = refs \cup {<<"GhostSGP", "Ghost-Pod-SG">>}
    /\ locals' = locals \cup {"sgp"}
    /\ Goto("ges")
    /\ UNCHANGED <<subnets, rules, policies, deps>>
    /\ Frame

\* lines 146-149: the else branch; eks_cluster.cluster_security_group is an attribute
\* of the imported cluster, which the import of lines 48-61 may leave undefined
AllowFromCluster ==
    /\ pc = "clusterrule"
    /\ \E defined \in BOOLEAN :
         IF ~defined
         THEN Raise("LookupError")
         ELSE /\ rules' = rules \cup {AllowFrom("ClusterSG")}
              /\ Goto("ges")
              /\ UNCHANGED <<constructs, policies, deps, refs, locals, realized>>
    /\ UNCHANGED <<ctx, env, account, region, subnets>>

\* SecretData with the host mapping left out
SecretDataNoHost ==
    << [key |-> "RDS.secret", name |-> "password", property |-> "password"],
       [key |-> "RDS.secret", name |-> "dbname",   property |-> "dbname"],
       [key |-> "RDS.secret", name |-> "username", property |-> "username"] >>

\* lines 161-182: the "data" list of the ExternalSecret; every key is
\* ghost_rds.secret.secret_name
SecretData ==
    << [key |-> "RDS.secret", name |-> "password", property |-> "password"],
       [key |-> "RDS.secret", name |-> "dbname",   property |-> "dbname"],
       [key |-> "RDS.secret", name |-> "host",     property |-> "host"],
       [key |-> "RDS.secret", name |-> "username", property |-> "username"] >>

\* the constructs whose attributes the entries of a data list use
DataRefs(data) ==
    { IF data[i].key = "RDS.secret" THEN "RDS" ELSE data[i].key : i \in 1..Len(data) }

\* lines 152-184: ghost_external_secret = eks_cluster.add_manifest("GhostExternalSecret", ...)
AddExternalSecret ==
    /\ pc = "ges"
    /\ constructs' = Append(constructs, Construct("GhostExternalSecret", "KubernetesManifest",
           [kind |-> "ExternalSecret", data |-> SecretData]))
    /\ refs' = refs \cup { <<"GhostExternalSecret", t>> : t \in DataRefs(SecretData) }
    /\ locals' = locals \cup {"ghost_external_secret"}
    /\ Goto("ges_dep")
    /\ UNCHANGED <<subnets, rules, policies, deps>>
    /\ Frame

\* the dependency taken on the service account instead of the chart
ExternalSecretDepsOnAccount == { <<"GhostExternalSecret", "kubernetes-external-secrets">> }

\* line 186: ghost_external_secret.node.add_dependency(external_secrets_chart)
ExternalSecretDeps == { <<"GhostExternalSecret", "external-secrets">> }

\* lines 185-186: the name external_secrets_chart is bound only by line 91
DependOnChart ==
    /\ pc = "ges_dep"
    /\ IF ExternalSecretsEnabledAgain
       THEN IF "external_secrets_chart" \notin locals
            THEN Raise("UnboundLocalError")
            ELSE /\ deps' = deps \cup ExternalSecretDeps
                 /\ Goto("deployment")
                 /\ UNCHANGED <<constructs, rules, policies, refs, locals>>
       ELSE /\ Goto("deployment")
            /\ UNCHANGED <<constructs, rules, policies, deps, refs, locals>>
    /\ UNCHANGED subnets
    /\ Frame

\* open(name, 'r') raises when the file is missing; yaml.load raises on a
\* malformed document
YamlError(st) ==
    CASE st = "missing" -> "FileNotFoundError"
      [] st = "malformed" -> "YAMLError"
      [] OTHER -> "none"

\* line 197 left out
DeploymentDepsMissing == {}

\* line 197 with receiver and argument exchanged
DeploymentDepsReversed == { <<"GhostExternalSecret", "GhostDeploymentManifest">> }

\* line 197: ghost_deployment_manifest.node.add_dependency(ghost_external_secret)
DeploymentDeps == { <<"GhostDeploymentManifest", "GhostExternalSecret">> }

\* lines 206 and 215: the manifests are added and no add_dependency follows
ServiceDeps == {}

IngressDeps == {}

\* open, yaml.load, close, add_manifest and the add_dependency calls that follow
AddYamlManifest(id, file, newDeps, next) ==
    \E st \in FileStates :
      IF YamlError(st) # "none"
      THEN Raise(YamlError(st))
      ELSE /\ constructs' = Append(constructs, Construct(id, "KubernetesManifest",
                  [kind |-> file, data |-> <<>>]))
           /\ deps' = deps \cup newDeps
           /\ Goto(next)
           /\ UNCHANGED <<rules, policies, refs, locals, realized>>

\* lines 190-197
AddDeployment ==
    /\ pc = "deployment"
    /\ AddYamlManifest("GhostDeploymentManifest", "ghost-deployment.yaml",
                       DeploymentDeps, "service")
    /\ UNCHANGED <<ctx, env, account, region, subnets>>

\* lines 201-206
AddService ==
    /\ pc = "service"
    /\ AddYamlManifest("GhostServiceManifest", "ghost-service.yaml", ServiceDeps, "ingress")
    /\ UNCHANGED <<ctx, env, account, region, subnets>>

\* lines 210-215
AddIngress ==
    /\ pc = "ingress"
    /\ AddYamlManifest("GhostIngressManifest", "ghost-ingress.yaml", IngressDeps, "synth")
    /\ UNCHANGED <<ctx, env, account, region, subnets>>

\* line 232: app.synth() hands the graph over
Synth ==
    /\ pc = "synth"
    /\ Goto("done")
    /\ UNCHANGED <<subnets, constructs, rules, policies, deps, refs, locals>>
    /\ Frame

(***************************************************************************)
(* The apply engine: realizes a node once everything it depends on, by an  *)
(* explicit edge or by reference, is realized.  Imported constructs exist. *)
(***************************************************************************)
Imported == { constructs[i].id : i \in OfKind("VpcRef") \cup OfKind("ClusterRef")
                                          \cup OfKind("OidcRef") }

Nodes == Ids \ Imported

Edges == deps \cup refs

Realize(n) ==
    /\ pc = "done"
    /\ n \in Nodes \ realized
    /\ \A e \in Edges : e[1] = n => e[2] \in realized \cup Imported
    /\ realized' = realized \cup {n}
    /\ UNCHANGED <<ctx, env, pc, error, account, region, subnets, constructs, rules,
                   policies, deps, refs, locals>>

Apply == \E n \in Nodes : Realize(n)

Build ==
    \/ ResolveAccount
    \/ ResolveRegion
    \/ LookupVpc
    \/ CreateDbSecurityGroup
    \/ CreateDatabase
    \/ ImportCluster
    \/ BranchExternalSecrets
    \/ AddServiceAccount
    \/ AddPolicy
    \/ AddHelmChart
    \/ BranchSgp
    \/ CreatePodSecurityGroup
    \/ AllowFromPods
    \/ AddSgpManifest
    \/ AllowFromCluster
    \/ AddExternalSecret
    \/ DependOnChart
    \/ AddDeployment
    \/ AddService
    \/ AddIngress
    \/ Synth

Next == Build

Spec == Init /\ [][Next]_vars

\* a run whose account and region are given in the context, followed through
\* the apply engine
InitGiven ==
    /\ ctx \in { c \in Contexts : c.account = Str(<<"1", "2">>) /\ c.region = Str(<<"e", "u">>) }
    /\ env = [n \in EnvNames |-> EnvValue(n)]
    /\ InitRest

NextApply == Build \/ Apply

SpecApply == InitGiven /\ [][NextApply]_vars /\ WF_vars(Apply)

(***************************************************************************)
(* Properties                                                              *)
(***************************************************************************)
\* GhostStack.__init__ has returned
Built == pc \in {"synth", "done"}

TrueStr == Str(TrueLiteral)

PodRule == [to |-> "Ghost-DB-SG", from |-> "Ghost-Pod-SG", proto |-> "tcp", port |-> 3306]

ClusterRule == [to |-> "Ghost-DB-SG", from |-> "ClusterSG", proto |-> "tcp", port |-> 3306]

PodAlternative == PodRule \in rules /\ "GhostSGP" \in Ids

ClusterAlternative == ClusterRule \in rules /\ "GhostSGP" \notin Ids

\* C1: whatever deploy_sgp is, a constructed GhostStack holds exactly one of the
\* pod-level rule with the GhostSGP manifest, or the cluster-level rule without
\* that manifest; the two rules never coexist, and the manifest never exists
\* without the pod-level rule.
C1_ExactlyOneRulePath ==
    /\ ~(PodRule \in rules /\ ClusterRule \in rules)
    /\ ("GhostSGP" \in Ids => PodRule \in rules)
    /\ Built => /\ PodAlternative \/ ClusterAlternative
                /\ ~(PodAlternative /\ ClusterAlternative)
                /\ rules \in {{PodRule}, {ClusterRule}}

C1_Witness ==
    /\ pc = "done"
    /\ ctx.deploy_sgp = Str(<<"t", "r", "u", "e">>)
    /\ ClusterAlternative

ReadOnlySecretActions ==
    { "secretsmanager:GetResourcePolicy", "secretsmanager:GetSecretValue",
      "secretsmanager:DescribeSecret", "secretsmanager:ListSecretVersionIds" }

AccessBinding ==
    /\ "kubernetes-external-secrets" \in Ids
    /\ \E p \in policies : /\ p.sa = "kubernetes-external-secrets"
                           /\ p.effect = "Allow"
                           /\ p.actions \subseteq ReadOnlySecretActions

SyncEdge == <<"GhostExternalSecret", "external-secrets">>

\* C2: in a constructed GhostStack the service account with its read-only secrets
\* statement, the external-secrets chart, and the edge from GhostExternalSecret to
\* that chart each exist exactly when deploy_external_secrets is "True"; before
\* construction ends none of them exists unless the flag is "True".
C2_SyncIffFlag ==
    LET on == ctx.deploy_external_secrets = TrueStr IN
    /\ ( \/ "kubernetes-external-secrets" \in Ids
         \/ policies # {}
         \/ "external-secrets" \in Ids
         \/ SyncEdge \in deps ) => on
    /\ Built => /\ AccessBinding <=> on
                /\ "external-secrets" \in Ids <=> on
                /\ SyncEdge \in deps <=> on

C2_Witness ==
    /\ pc = "done"
    /\ ctx.deploy_external_secrets = TrueStr
    /\ AccessBinding
    /\ SyncEdge \in deps

DeploymentEdge == <<"GhostDeploymentManifest", "GhostExternalSecret">>

\* C3: once the deployment manifest is added and its statement group is done it
\* has an edge to GhostExternalSecret; no edge ever starts or ends at the service
\* or the ingress manifest.
C3_DeploymentDependsOthersDoNot ==
    /\ "GhostDeploymentManifest" \in Ids => DeploymentEdge \in deps
    /\ \A e \in deps : /\ e[1] \notin {"GhostServiceManifest", "GhostIngressManifest"}
                       /\ e[2] \notin {"GhostServiceManifest", "GhostIngressManifest"}

C3_Witness ==
    /\ pc = "done"
    /\ {"GhostDeploymentManifest", "GhostServiceManifest", "GhostIngressManifest"} \subseteq Ids
    /\ DeploymentEdge \in deps

\* the manifests whose payload uses the database's generated secret
SecretReaders ==
    { constructs[i].id : i \in { j \in OfKind("KubernetesManifest") :
          \E k \in 1..Len(constructs[j].body.data) :
              constructs[j].body.data[k].key = "RDS.secret" } }

\* C4 as stated: every manifest that uses the generated secret has an explicit
\* edge to the database and, when external secrets are enabled, an explicit edge
\* to the service account.
C4_ExplicitEdgesAsClaimed ==
    Built => \A m \in SecretReaders :
                /\ <<m, "RDS">> \in deps
                /\ ctx.deploy_external_secrets = TrueStr
                      => <<m, "kubernetes-external-secrets">> \in deps

RECURSIVE ReachableFrom(_, _)
ReachableFrom(S, E) ==
    LET T == S \cup { e[2] : e \in { f \in E : f[1] \in S } } IN
    IF T = S THEN S ELSE ReachableFrom(T, E)

\* C4 amended: every manifest that uses the generated secret is tied to the
\* database by the reference to the secret's name and by no explicit edge; when
\* external secrets are enabled its one explicit edge is to the external-secrets
\* chart, and no chain of edges leads from it to the service account.
C4_ReferenceAndChartEdge ==
    Built => \A m \in SecretReaders :
                /\ <<m, "RDS">> \in refs
                /\ <<m, "RDS">> \notin deps
                /\ ctx.deploy_external_secrets = TrueStr
                      => /\ { e \in deps : e[1] = m } = { <<m, "external-secrets">> }
                         /\ "kubernetes-external-secrets" \in Ids
                         /\ "kubernetes-external-secrets" \notin ReachableFrom({m}, deps \cup refs)

C4_Witness ==
    /\ pc = "done"
    /\ ctx.deploy_external_secrets = TrueStr
    /\ "GhostExternalSecret" \in SecretReaders
    /\ <<"GhostExternalSecret", "external-secrets">> \in deps

MissingOrEmpty(c) == c = None \/ c = Str(<<>>)

\* the outcome C5 states for one of account and region: x is the resolved
\* variable, decided says that its statement has run
FallsBack(c, x, decided, deployKey, defaultKey) ==
    (MissingOrEmpty(c) /\ decided) =>
        IF env[deployKey] # None THEN x = env[deployKey]
        ELSE IF env[defaultKey] # None THEN x = env[defaultKey]
        ELSE pc = "aborted" /\ constructs = <<>>

\* C5: a missing or empty account (region) falls back to CDK_DEPLOY_ACCOUNT
\* (CDK_DEPLOY_REGION), then to CDK_DEFAULT_ACCOUNT (CDK_DEFAULT_REGION); the run
\* aborts only when both are unset, and then with no construct built.
C5_FallbackChain ==
    /\ FallsBack(ctx.account, account, pc # "account",
                 "CDK_DEPLOY_ACCOUNT", "CDK_DEFAULT_ACCOUNT")
    /\ FallsBack(ctx.region, region, account # Unset /\ pc # "region",
                 "CDK_DEPLOY_REGION", "CDK_DEFAULT_REGION")

Names(data) == [ i \in 1..Len(data) |-> data[i].name ]

\* C6: GhostExternalSecret is never added twice, a constructed GhostStack holds it
\* exactly once, and its data list is the four mappings password, dbname, host,
\* username, each keyed by the database's generated secret.
C6_OneSecretMappingFourFields ==
    /\ Occurrences("GhostExternalSecret") <= 1
    /\ Built => Occurrences("GhostExternalSecret") = 1
    /\ \A i \in 1..Len(constructs) :
          constructs[i].id = "GhostExternalSecret" =>
             LET d == constructs[i].body.data IN
             /\ constructs[i].body.kind = "ExternalSecret"
             /\ Names(d) = <<"password", "dbname", "host", "username">>
             /\ \A k \in 1..Len(d) : d[k].key = "RDS.secret" /\ d[k].property = d[k].name

C6_Witness ==
    /\ pc = "done"
    /\ ctx.deploy_external_secrets = None
    /\ ctx.deploy_sgp = TrueStr
    /\ Occurrences("GhostExternalSecret") = 1

Count(k) == Cardinality(OfKind(k))

YamlManifests == {"GhostDeploymentManifest", "GhostServiceManifest", "GhostIngressManifest"}

BaseIds ==
    {"VPC", "Ghost-DB-SG", "RDS", "EKSClusterOIDCProvider", "cluster", "GhostExternalSecret"}
      \cup YamlManifests

Off == { None, Str(<<"F", "a", "l", "s", "e">>) }

\* C7: after synth the graph is the one the scenarios state.  Both flags "True":
\* two security groups, the GhostSGP manifest, one access binding, one chart, one
\* secret mapping with its edge to the chart, and the three YAML manifests.  Both
\* flags absent or "False": one security group, the cluster-level rule alone, no
\* access binding, no chart, a secret mapping without any edge, and the three YAML
\* manifests.
C7_Scenarios ==
    pc = "done" =>
      /\ (ctx.deploy_external_secrets = TrueStr /\ ctx.deploy_sgp = TrueStr) =>
            /\ Count("SecurityGroup") = 2
            /\ Count("ServiceAccount") = 1 /\ Cardinality(policies) = 1
            /\ Count("HelmChart") = 1
            /\ Count("KubernetesManifest") = 5
            /\ Len(constructs) = Cardinality(Ids)
            /\ Ids = BaseIds \cup {"Ghost-Pod-SG", "GhostSGP", "kubernetes-external-secrets",
                                   "external-secrets"}
            /\ rules = {PodRule}
            /\ deps = {SyncEdge, DeploymentEdge}
      /\ (ctx.deploy_external_secrets \in Off /\ ctx.deploy_sgp \in Off) =>
            /\ Count("SecurityGroup") = 1
            /\ Count("ServiceAccount") = 0 /\ policies = {}
            /\ Count("HelmChart") = 0
            /\ Count("KubernetesManifest") = 4
            /\ Len(constructs) = Cardinality(Ids)
            /\ Ids = BaseIds
            /\ rules = {ClusterRule}
            /\ deps = {DeploymentEdge}

C7_Witness ==
    /\ pc = "done"
    /\ ctx.deploy_external_secrets = TrueStr
    /\ ctx.deploy_sgp = TrueStr
    /\ Count("SecurityGroup") = 2
    /\ SyncEdge \in deps

\* C8: once an exception is raised the run is aborted: the position is "aborted",
\* synth is not reached, and no further step of the script is taken.
C8_FailureAborts ==
    /\ [](error # "none" => pc = "aborted")
    /\ [](pc \in {"synth", "done"} => error = "none")
    /\ [][error = "none"]_vars

C8_Witness ==
    /\ error = "YAMLError"
    /\ pc = "aborted"
    /\ "GhostDeploymentManifest" \in Ids
    /\ "GhostServiceManifest" \notin Ids

RECURSIVE Peel(_, _)
Peel(S, E) ==
    LET leaves == { n \in S : \A e \in E : e[1] = n => e[2] \notin S } IN
    IF leaves = {} THEN S ELSE Peel(S \ leaves, E)

Acyclic == Peel(Ids, deps \cup refs) = {}

\* C9: the graph is acyclic at every point; once it is handed over, an engine
\* that realizes a node only after its dependencies realizes every node; the
\* deployment manifest is never realized before GhostExternalSecret nor, when
\* deploy_external_secrets is "True", before the external-secrets chart.
C9_AcyclicAndOrdered ==
    /\ []Acyclic
    /\ []("GhostDeploymentManifest" \in realized =>
            /\ "GhostExternalSecret" \in realized
            /\ ctx.deploy_external_secrets = TrueStr => "external-secrets" \in realized)
    /\ (pc = "done" ~> (realized = Nodes /\ Nodes # {}))

C9_Witness ==
    /\ pc = "done"
    /\ ctx.deploy_external_secrets = TrueStr
    /\ realized = Nodes
    /\ "GhostDeploymentManifest" \in realized

\* C10: the enabled branch of each flag is entered exactly when the flag is the
\* string "True"; the edge to the chart exists only where the chart does, and the
\* second read of deploy_external_secrets never reaches an unbound
\* external_secrets_chart.
C10_EnabledIffTrueString ==
    /\ error # "UnboundLocalError"
    /\ SyncEdge \in deps => "external-secrets" \in Ids
    /\ pc \in {"sa", "policy", "chart"} => ctx.deploy_external_secrets = TrueStr
    /\ pc \in {"podsg", "podrule", "sgp"} => ctx.deploy_sgp = TrueStr
    /\ pc = "clusterrule" => ctx.deploy_sgp # TrueStr
    /\ Built => /\ "external-secrets" \in Ids <=> ctx.deploy_external_secrets = TrueStr
                /\ "Ghost-Pod-SG" \in Ids <=> ctx.deploy_sgp = TrueStr
                /\ SyncEdge \in deps <=> ctx.deploy_external_secrets = TrueStr

C10_Witness ==
    /\ pc = "done"
    /\ ctx.deploy_external_secrets = PyBool(TRUE)
    /\ ctx.deploy_sgp = Str(<<"t", "r", "u", "e">>)
    /\ "external-secrets" \notin Ids
    /\ "Ghost-Pod-SG" \notin Ids
====
